---- MODULE Spec2Model ----
(***************************************************************************)
(* Model of the v7.9.8 stock-screening rules engine                        *)
(* (src/v7_9_8_app_allinone.py): Universe filter, Firm check, Score,       *)
(* tier classification, E-candidate flag, the yfinance -> StockSnapshot    *)
(* conversion and the scan loop that drives them.                          *)
(*                                                                         *)
(* Number representation.  Every ratio field of a StockSnapshot (ROE, OPM, *)
(* debt ratio, growth figures, NPL, coverage, turnover ratio, advance      *)
(* ratio) is held in thousandths: 0.15 is 150, 0.003 is 3.  Prices,        *)
(* volumes and TWD amounts are plain integers.  rs60 is a percentile       *)
(* 0..100.  The Python code computes in binary floating point; the model   *)
(* computes the same expressions in exact rational arithmetic, so a score  *)
(* whose exact value is a tie (x.5) may differ by one point from the       *)
(* float result.  Python's None is the value None below.                   *)
(***************************************************************************)
EXTENDS Integers, FiniteSets, Sequences, TLC

\* Python's None (an absent Optional field, or a missing key of the info dict).
None == -999999

\* Python's max and min of two numbers.
Max(a, b) == IF a >= b THEN a ELSE b

\* max written where min was meant
Min_AsMax(a, b) == IF a >= b THEN a ELSE b

Min(a, b) == IF a <= b THEN a ELSE b

\* A value above the ceiling discarded (reset to the floor) instead of capped.
Clamp_RejectAbove(lo, hi, x) == IF x > hi THEN lo ELSE Max(lo, x)

\* max(lo, min(hi, x))
Clamp(lo, hi, x) == Max(lo, Min(hi, x))

\* Python's `x or 0.0`: None and 0 both give 0.
OrZero(x) == IF x = None \/ x = 0 THEN 0 ELSE x

\* int(round(n / d)) for n >= 0, d > 0: round half to even.
RoundHalfEven(n, d) ==
    LET q == n \div d
        r == n % d
    IN  IF 2 * r < d THEN q
        ELSE IF 2 * r > d THEN q + 1
        ELSE IF q % 2 = 0 THEN q ELSE q + 1

\* Rule constants.
PRICE_CAP_DEFAULT == 80
MIN_TURNOVER_20 == 50000000
MIN_TURNOVER_RATIO_20 == 3
MIN_MARKET_CAP == 1000000000

\* class Layer
LayerA == "A"
LayerB == "B"
LayerC == "C"
LayerD == "D"
ELIMINATED == "X"
Layers == {LayerA, LayerB, LayerC, LayerD, ELIMINATED}

(***************************************************************************)
(* Universe filter                                                         *)
(***************************************************************************)
NonFinancialChecks(s, price_cap) ==
    [ price      |-> s.close <= price_cap,
      market_cap |-> s.market_cap >= MIN_MARKET_CAP,
      revenue_3m_yoy |->
           /\ s.revenue_yoy_m1 # None
           /\ s.revenue_yoy_m2 # None
           /\ s.revenue_yoy_m3 # None
           /\ s.revenue_yoy_m1 >= 50
           /\ s.revenue_yoy_m2 >= 50
           /\ s.revenue_yoy_m3 >= 50,
      roe        |-> s.roe_ttm # None /\ s.roe_ttm > 100,
      opm        |-> s.opm_ttm # None /\ s.opm_ttm >= 50,
      debt_ratio |-> s.debt_ratio # None /\ s.debt_ratio < 600,
      turnover_20 |-> s.avg_turnover_20 # None /\ s.avg_turnover_20 >= MIN_TURNOVER_20,
      turnover_ratio_20 |->
           s.turnover_ratio_20 # None /\ s.turnover_ratio_20 >= MIN_TURNOVER_RATIO_20 ]

\* A financial check that skips the `is None` test: None compares below 0.01.
NplCheck_NoNoneTest(s) == s.npl_ratio < 10

\* if s.npl_ratio is None: checks["npl"] = False; else: s.npl_ratio < 0.01
NplCheck(s) == IF s.npl_ratio = None THEN FALSE ELSE s.npl_ratio < 10

\* if s.coverage_ratio is None: checks["coverage"] = False; else: s.coverage_ratio > 1.0
CoverageCheck(s) == IF s.coverage_ratio = None THEN FALSE ELSE s.coverage_ratio > 1000

FinancialChecks(s, price_cap) ==
    [ price      |-> s.close <= price_cap,
      market_cap |-> s.market_cap >= MIN_MARKET_CAP,
      roe        |-> s.roe_ttm # None /\ s.roe_ttm > 100,
      npl        |-> NplCheck(s),
      coverage   |-> CoverageCheck(s),
      growth     |->
           \/ (s.eps_growth_4q # None /\ s.eps_growth_4q >= 50)
           \/ (s.net_income_growth_3m # None /\ s.net_income_growth_3m >= 50),
      turnover_20 |-> s.avg_turnover_20 # None /\ s.avg_turnover_20 >= MIN_TURNOVER_20,
      turnover_ratio_20 |->
           s.turnover_ratio_20 # None /\ s.turnover_ratio_20 >= MIN_TURNOVER_RATIO_20 ]

\* any() in place of all()
AllChecks_Any(checks) == \E k \in DOMAIN checks : checks[k]

\* all(checks.values())
AllChecks(checks) == \A k \in DOMAIN checks : checks[k]

UniverseResult(checks, failReason) ==
    [ passed |-> AllChecks(checks),
      reason |-> IF AllChecks(checks) THEN "OK" ELSE failReason,
      checks |-> checks ]

_check_universe_non_financial(s, price_cap) ==
    UniverseResult(NonFinancialChecks(s, price_cap), "Non-financial universe filter failed")

_check_universe_financial(s, price_cap) ==
    UniverseResult(FinancialChecks(s, price_cap), "Financial universe filter failed")

check_universe(s, price_cap) ==
    IF s.is_financial
    THEN _check_universe_financial(s, price_cap)
    ELSE _check_universe_non_financial(s, price_cap)

(***************************************************************************)
(* Firm check                                                              *)
(***************************************************************************)
\* close > ma60 and close > ma240
FirmPrice(s) ==
    /\ s.close # None /\ s.ma60 # None /\ s.ma240 # None
    /\ s.close > s.ma60 /\ s.close > s.ma240

\* close * volume >= 1.5 * avg_turnover_20
FirmVolume(s) ==
    IF s.avg_turnover_20 # None /\ s.close # None
    THEN 2 * (s.close * s.volume) >= 3 * s.avg_turnover_20
    ELSE FALSE

\* close >= ma240 * 1.02
FirmTrend(s) ==
    s.close # None /\ s.ma240 # None /\ 100 * s.close >= 102 * s.ma240

\* The no-data default turned to False.
FirmGroup_DefaultFalse(s) ==
    LET cond_a == s.industry_up_ratio_5d # None /\ s.industry_up_ratio_5d >= 600
        cond_b == /\ s.industry_index_price # None
                  /\ s.industry_index_ma60 # None
                  /\ s.industry_index_price > s.industry_index_ma60
    IN  cond_a \/ cond_b

FirmGroup(s) ==
    IF \/ s.industry_up_ratio_5d # None
       \/ (s.industry_index_price # None /\ s.industry_index_ma60 # None)
    THEN LET cond_a == s.industry_up_ratio_5d # None /\ s.industry_up_ratio_5d >= 600
             cond_b == /\ s.industry_index_price # None
                       /\ s.industry_index_ma60 # None
                       /\ s.industry_index_price > s.industry_index_ma60
         IN  cond_a \/ cond_b
    ELSE TRUE

\* sum(1 for c in cond_list if c)
CountTrue(cond_list) == Cardinality({i \in DOMAIN cond_list : cond_list[i]})

\* "four-of-four" relaxed to three
FirmIsFirm_AtLeast3(count) == count >= 3

\* is_firm = (count == 4)
FirmIsFirm(count) == count = 4

check_firm(s) ==
    LET cond_list == <<FirmPrice(s), FirmVolume(s), FirmTrend(s), FirmGroup(s)>>
        count == CountTrue(cond_list)
    IN  [ f_price  |-> cond_list[1],
          f_volume |-> cond_list[2],
          f_trend  |-> cond_list[3],
          f_group  |-> cond_list[4],
          count    |-> count,
          is_firm  |-> FirmIsFirm(count) ]

(***************************************************************************)
(* Score                                                                   *)
(***************************************************************************)
\* The three monthly revenue YoY figures, in the order the code reads them.
RevenueYoY(s) == <<s.revenue_yoy_m1, s.revenue_yoy_m2, s.revenue_yoy_m3>>

RECURSIVE SumPresent(_, _)
SumPresent(xs, i) ==
    IF i > Len(xs) THEN 0
    ELSE (IF xs[i] # None THEN xs[i] ELSE 0) + SumPresent(xs, i + 1)

\* rev_avg = RevSum / RevCnt when RevCnt > 0, else 0.0
RevSum(s) == SumPresent(RevenueYoY(s), 1)
RevCnt(s) == Cardinality({i \in 1..3 : RevenueYoY(s)[i] # None})

\* rev_avg >= t  (t in thousandths), for the rev_avg of the loop above
RevAvgGE(s, t) ==
    IF RevCnt(s) > 0 THEN RevSum(s) >= t * RevCnt(s) ELSE 0 >= t

\* x / 0.3 * 15.0 with x = max(0.0, min(0.3, v)): in thousandths x / 20.
\* A sum of two such terms is kept as a fraction and rounded once.
GrowthScore(s) ==
    IF ~s.is_financial
    THEN LET cnt == RevCnt(s)
             d   == IF cnt > 0 THEN cnt ELSE 1
             \* max(0, min(0.3, rev_avg)) * cnt
             c1  == IF cnt > 0 THEN Clamp(0, 300 * cnt, RevSum(s)) ELSE 0
             c2  == Clamp(0, 300, OrZero(s.eps_growth_4q))
         IN  RoundHalfEven(c1 + c2 * d, 20 * d)
    ELSE LET c1 == Clamp(0, 300, OrZero(s.eps_growth_4q))
             c2 == Clamp(0, 300, OrZero(s.net_income_growth_3m))
         IN  RoundHalfEven(c1 + c2, 20)

QualityScore(s) ==
    IF ~s.is_financial
    THEN LET c1 == Clamp(0, 300, OrZero(s.roe_ttm))
             c2 == Clamp(0, 300, OrZero(s.opm_ttm))
         IN  RoundHalfEven(c1 + c2, 20)
    ELSE LET c1  == Clamp(0, 300, OrZero(s.roe_ttm))
             npl == IF s.npl_ratio # None THEN s.npl_ratio ELSE 20
             coverage == IF s.coverage_ratio # None THEN s.coverage_ratio ELSE 500
             raw_q2 == Max(0, 1500 - npl * 10 + (coverage - 1000))
             c2  == Clamp(0, 2000, raw_q2)
             \* q1 = c1 / 20, q2 = c2 / 2000 * 15 = 3 * c2 / 400
         IN  RoundHalfEven(20 * c1 + 3 * c2, 400)

MomentumScore(s, firm) ==
      (IF s.close > s.ma60 THEN 5 ELSE 0)
    + (IF s.close > s.ma240 THEN 5 ELSE 0)
    + (IF s.ma20 > s.ma60 THEN 5 ELSE 0)
    + (IF s.avg_turnover_20 # None /\ s.close * s.volume > s.avg_turnover_20 THEN 5 ELSE 0)
    + (IF firm.f_group THEN 5 ELSE 0)

\* Valuation is a fixed placeholder.
ValuationScore == 10

\* int(max(0, min(100, total)))
ClampTotal(total) == Max(0, Min(100, total))

calculate_score(s, firm) ==
    LET growth    == GrowthScore(s)
        quality   == QualityScore(s)
        momentum  == MomentumScore(s, firm)
        valuation == ValuationScore
    IN  [ total     |-> ClampTotal(growth + quality + momentum + valuation),
          growth    |-> growth,
          quality   |-> quality,
          momentum  |-> momentum,
          valuation |-> valuation ]

(***************************************************************************)
(* E-candidate and tier classification                                     *)
(***************************************************************************)
\* An absent inst_net_buy_20 read as 0 instead of failing the flag.
check_e_candidate_AbsentAsZero(s) ==
    IF s.rs60 < 75 THEN FALSE
    ELSE IF s.inst_net_buy_20 # None /\ s.inst_net_buy_20 < 0 THEN FALSE
    ELSE IF s.industry_rank_by_size = None \/ s.industry_rank_by_size > 3 THEN FALSE
    ELSE IF s.last_quarter_growth = None \/ s.last_quarter_growth < 100 THEN FALSE
    ELSE TRUE

check_e_candidate(s) ==
    IF s.rs60 < 75 THEN FALSE
    ELSE IF s.inst_net_buy_20 = None \/ s.inst_net_buy_20 < 0 THEN FALSE
    ELSE IF s.industry_rank_by_size = None \/ s.industry_rank_by_size > 3 THEN FALSE
    ELSE IF s.last_quarter_growth = None \/ s.last_quarter_growth < 100 THEN FALSE
    ELSE TRUE

\* `or` in place of `and`
IsLayerA_Or(firm, score) == firm.is_firm \/ score.total >= 70

IsLayerA(firm, score) == firm.is_firm /\ score.total >= 70

\* the Firm-missing-one rule dropped
IsLayerB_BandOnly(firm, score) == 60 <= score.total /\ score.total <= 69

IsLayerB(firm, score) == firm.count = 3 \/ (60 <= score.total /\ score.total <= 69)

growth_relaxed(s) ==
    RevAvgGE(s, 0) \/ (s.revenue_yoy_m1 # None /\ s.revenue_yoy_m1 >= 50)

IsLayerC(s, firm) ==
    /\ firm.count >= 3
    /\ firm.f_price
    /\ (s.roe_ttm # None /\ s.roe_ttm > 100)
    /\ (s.opm_ttm # None /\ s.opm_ttm >= 30)
    /\ growth_relaxed(s)

cond_bottom(s) ==
      (IF s.roe_ttm # None /\ s.roe_ttm >= 80 THEN 1 ELSE 0)
    + (IF s.opm_ttm # None /\ s.opm_ttm >= 20 THEN 1 ELSE 0)
    + (IF RevAvgGE(s, -30) THEN 1 ELSE 0)

\* the firm.count >= 2 requirement dropped
IsLayerD_TallyOnly(s, firm) == cond_bottom(s) >= 2

IsLayerD(s, firm) == firm.count >= 2 /\ cond_bottom(s) >= 2

\* The C branch tested before the B branch.
LayerOf_CBeforeB(s, firm, score) ==
    IF IsLayerA(firm, score) THEN <<LayerA, "Firm (4/4) and score>=70">>
    ELSE IF IsLayerC(s, firm) THEN <<LayerC, "Three-of-four Firm + relaxed growth">>
    ELSE IF IsLayerB(firm, score) THEN <<LayerB, "Firm missing 1 or score 60-69">>
    ELSE IF IsLayerD(s, firm) THEN <<LayerD, "Momentum>=2 and bottom-line>=2">>
    ELSE <<ELIMINATED, "Does not match any layer A/B/C/D">>

\* The branch taken once universe.passed holds: <<layer, reason>>.
LayerOf(s, firm, score) ==
    IF IsLayerA(firm, score) THEN <<LayerA, "Firm (4/4) and score>=70">>
    ELSE IF IsLayerB(firm, score) THEN <<LayerB, "Firm missing 1 or score 60-69">>
    ELSE IF IsLayerC(s, firm) THEN <<LayerC, "Three-of-four Firm + relaxed growth">>
    ELSE IF IsLayerD(s, firm) THEN <<LayerD, "Momentum>=2 and bottom-line>=2">>
    ELSE <<ELIMINATED, "Does not match any layer A/B/C/D">>

\* The early return on a failed Universe filter left out.
classify_stock_NoUniverseGate(s, universe, firm, score) ==
    [ symbol |-> s.symbol, layer |-> LayerOf(s, firm, score)[1],
      is_e_candidate |-> check_e_candidate(s),
      universe |-> universe, firm |-> firm, score |-> score,
      reason |-> LayerOf(s, firm, score)[2] ]

classify_stock(s, universe, firm, score) ==
    IF ~universe.passed
    THEN [ symbol |-> s.symbol, layer |-> ELIMINATED, is_e_candidate |-> FALSE,
           universe |-> universe, firm |-> firm, score |-> score,
           reason |-> "Universe not passed" ]
    ELSE [ symbol |-> s.symbol, layer |-> LayerOf(s, firm, score)[1],
           is_e_candidate |-> check_e_candidate(s),
           universe |-> universe, firm |-> firm, score |-> score,
           reason |-> LayerOf(s, firm, score)[2] ]

(***************************************************************************)
(* yfinance -> StockSnapshot                                               *)
(*                                                                         *)
(* `info` is the ticker's info dict (a missing key is None); amounts of    *)
(* the balance sheet are in millions, debtToEquity is a percentage as      *)
(* yfinance gives it.  `hist` summarises the price history after           *)
(* dropna(): its row count and the figures the code derives from it.       *)
(* is_financial_industry stands for the keyword match on the industry      *)
(* string.                                                                 *)
(***************************************************************************)
\* Absence of a record (a snapshot not built, a result not yet computed).
Nil == [nil |-> TRUE]

\* a / b as a float ratio, in thousandths
Thousandths(a, b) == (1000 * a) \div b

\* isinstance(x, (int, float))
IsNumber(x) == x # None

InfoTurnoverRatio(info, hist) ==
    LET shares_out == IF info.sharesOutstanding = None \/ info.sharesOutstanding = 0
                      THEN None ELSE info.sharesOutstanding
    IN  IF IsNumber(shares_out) /\ shares_out > 0
        THEN Thousandths(hist.avg_vol20, shares_out)
        ELSE None

\* The local debt_ratio before the constructor call: None when no source has it.
InfoDebtRatio(info) ==
    IF IsNumber(info.totalDebt) /\ IsNumber(info.totalAssets) /\ info.totalAssets > 0
    THEN Thousandths(info.totalDebt, info.totalAssets)
    ELSE IF /\ IsNumber(info.totalDebt) /\ IsNumber(info.totalStockholderEquity)
            /\ info.totalDebt + info.totalStockholderEquity > 0
    THEN Thousandths(info.totalDebt, info.totalDebt + info.totalStockholderEquity)
    ELSE IF IsNumber(info.debtToEquity)
    \* de = D/E% / 100; de / (1 + de)
    THEN Thousandths(info.debtToEquity, 100 + info.debtToEquity)
    ELSE None

\* float(x) if isinstance(x, (int, float)) else 0.0
FloatOrZero(x) == IF IsNumber(x) THEN x ELSE 0

\* float(x) if isinstance(x, (int, float)) else None
FloatOrNone(x) == IF IsNumber(x) THEN x ELSE None

build_snapshot_from_yfinance(symbol, info, hist) ==
    IF hist.rows < 240 THEN Nil
    ELSE [ symbol |-> symbol,
           is_financial |-> info.is_financial_industry,
           close |-> hist.close,
           volume |-> hist.volume,
           ma20 |-> hist.ma20,
           ma60 |-> hist.ma60,
           ma240 |-> hist.ma240,
           avg_turnover_20 |-> hist.turnover_20,
           turnover_ratio_20 |-> InfoTurnoverRatio(info, hist),
           market_cap |-> IF info.marketCap = None THEN 0 ELSE info.marketCap,
           roe_ttm |-> FloatOrZero(info.returnOnEquity),
           opm_ttm |-> FloatOrZero(info.operatingMargins),
           debt_ratio |-> FloatOrZero(InfoDebtRatio(info)),
           revenue_yoy_m1 |-> FloatOrNone(info.revenueGrowth),
           revenue_yoy_m2 |-> FloatOrNone(info.revenueGrowth),
           revenue_yoy_m3 |-> FloatOrNone(info.revenueGrowth),
           eps_growth_4q |-> FloatOrZero(info.earningsGrowth),
           net_income_growth_3m |-> FloatOrZero(info.earningsQuarterlyGrowth),
           npl_ratio |-> None,
           coverage_ratio |-> None,
           rs60 |-> 50,
           industry_index_price |-> None,
           industry_index_ma60 |-> None,
           industry_up_ratio_5d |-> None,
           inst_net_buy_20 |-> None,
           industry_rank_by_size |-> None,
           last_quarter_growth |-> None ]

(***************************************************************************)
(* Inputs.  Snapshots handed to the rules engine directly are drawn from   *)
(* families, each varying the fields one stage reads over values on both   *)
(* sides of every threshold that stage tests (and None where the code      *)
(* tests for it), around two base snapshots.                               *)
(***************************************************************************)
\* Number of securities of one scan (len(scan_targets)).
MaxTargets == 2

Symbol == "2330.TW"

\* Non-financial; passes the Universe filter; Firm 4/4; total 56.
BaseNF ==
    [ symbol |-> Symbol, is_financial |-> FALSE,
      close |-> 52, volume |-> 4000000, ma20 |-> 50, ma60 |-> 45, ma240 |-> 40,
      avg_turnover_20 |-> 100000000, turnover_ratio_20 |-> 10,
      market_cap |-> 2000000000,
      roe_ttm |-> 150, opm_ttm |-> 84, debt_ratio |-> 300,
      revenue_yoy_m1 |-> 60, revenue_yoy_m2 |-> 70, revenue_yoy_m3 |-> 80,
      eps_growth_4q |-> 104, net_income_growth_3m |-> 104,
      npl_ratio |-> None, coverage_ratio |-> None, rs60 |-> 50,
      industry_index_price |-> None, industry_index_ma60 |-> None,
      industry_up_ratio_5d |-> None, inst_net_buy_20 |-> None,
      industry_rank_by_size |-> None, last_quarter_growth |-> None ]

\* Financial; passes the Universe filter.
BaseFin == [BaseNF EXCEPT !.is_financial = TRUE, !.npl_ratio = 5, !.coverage_ratio = 1500]

Bases == {BaseNF, BaseFin}

\* Firm: prices against the averages, traded value against 1.0x and 1.5x the
\* 20-day average, both group signals present and absent.
FirmFamily ==
    { [b EXCEPT !.close = c, !.volume = v, !.ma20 = m20, !.ma60 = m60, !.ma240 = m240,
                !.avg_turnover_20 = at, !.industry_up_ratio_5d = up,
                !.industry_index_price = ip, !.industry_index_ma60 = im] :
        b \in Bases, c \in {52, 90}, v \in {500000, 2500000, 4000000},
        m20 \in {40, 99}, m60 \in {45, 95}, m240 \in {40, 51, 95},
        at \in {None, 40000000, 100000000, 150000000},
        up \in {None, 599, 600}, ip \in {None, 100}, im \in {None, 90, 100} }

\* Non-financial Universe checks, each at its boundary.
UniverseNFFamily ==
    { [BaseNF EXCEPT !.close = c, !.market_cap = mc,
                     !.revenue_yoy_m1 = m1, !.revenue_yoy_m2 = m2, !.revenue_yoy_m3 = m3,
                     !.roe_ttm = roe, !.opm_ttm = opm, !.debt_ratio = dr,
                     !.avg_turnover_20 = at, !.turnover_ratio_20 = tr] :
        c \in {80, 81}, mc \in {999999999, 1000000000},
        m1 \in {None, 49, 50}, m2 \in {None, 49, 50}, m3 \in {None, 49, 50},
        roe \in {None, 100, 101}, opm \in {None, 49, 50}, dr \in {None, 599, 600},
        at \in {None, 49999999, 50000000}, tr \in {None, 2, 3} }

\* Financial Universe checks, each at its boundary.
UniverseFinFamily ==
    { [BaseFin EXCEPT !.close = c, !.market_cap = mc, !.roe_ttm = roe,
                      !.npl_ratio = npl, !.coverage_ratio = cov,
                      !.eps_growth_4q = eps, !.net_income_growth_3m = ni,
                      !.avg_turnover_20 = at, !.turnover_ratio_20 = tr] :
        c \in {80, 81}, mc \in {999999999, 1000000000}, roe \in {None, 100, 101},
        npl \in {None, 9, 10}, cov \in {None, 1000, 1001},
        eps \in {None, 49, 50}, ni \in {None, 49, 50},
        at \in {None, 49999999, 50000000}, tr \in {None, 2, 3} }

\* Score: absent, negative, in-range and far-above-0.30 inputs of every sub-score.
ScoreNFFamily ==
    { [BaseNF EXCEPT !.revenue_yoy_m1 = m1, !.revenue_yoy_m2 = m2, !.revenue_yoy_m3 = m3,
                     !.eps_growth_4q = eps, !.roe_ttm = roe, !.opm_ttm = opm,
                     !.volume = v, !.ma60 = m60] :
        m1 \in {None, -500, 150, 1000}, m2 \in {None, 300}, m3 \in {None, -100},
        eps \in {None, -500, 0, 150, 1000}, roe \in {None, -500, 150, 1000},
        opm \in {None, -500, 1000}, v \in {500000, 4000000}, m60 \in {45, 95} }

\* Growth: the three monthly figures absent, negative, in range and above 0.30.
GrowthNFFamily ==
    { [BaseNF EXCEPT !.revenue_yoy_m1 = m1, !.revenue_yoy_m2 = m2, !.revenue_yoy_m3 = m3,
                     !.eps_growth_4q = eps] :
        m1 \in {None, -200, 100, 400}, m2 \in {None, -200, 100, 400},
        m3 \in {None, -200, 100, 400}, eps \in {None, 104} }

ScoreFinFamily ==
    { [BaseFin EXCEPT !.eps_growth_4q = eps, !.net_income_growth_3m = ni, !.roe_ttm = roe,
                      !.npl_ratio = npl, !.coverage_ratio = cov,
                      !.volume = v, !.ma60 = m60] :
        eps \in {None, -500, 0, 150, 1000}, ni \in {None, -500, 1000},
        roe \in {None, -500, 150, 1000}, npl \in {None, 0, 500}, cov \in {None, 0, 5000},
        v \in {500000, 4000000}, m60 \in {45, 95} }

\* Tiers.  A financial snapshot can pass the Universe filter with any OPM and
\* revenue figures, so every branch of the decision tree is reached.
TierFinFamily ==
    { [BaseFin EXCEPT !.roe_ttm = roe, !.opm_ttm = opm,
                      !.revenue_yoy_m1 = m1, !.revenue_yoy_m2 = m2, !.revenue_yoy_m3 = None,
                      !.eps_growth_4q = eps, !.net_income_growth_3m = ni,
                      !.volume = v, !.ma60 = m60, !.ma240 = m240,
                      !.industry_up_ratio_5d = up] :
        roe \in {101, 300}, opm \in {None, 19, 20, 29, 30},
        m1 \in {None, -31, -30, 50}, m2 \in {None, -200, 0},
        eps \in {0, 300}, ni \in {50, 300},
        v \in {500000, 2500000, 4000000}, m60 \in {45, 95}, m240 \in {40, 51, 95},
        up \in {None, 500} }

TierNFFamily ==
    { [BaseNF EXCEPT !.roe_ttm = roe, !.opm_ttm = opm, !.revenue_yoy_m1 = m1,
                     !.eps_growth_4q = eps,
                     !.volume = v, !.ma60 = m60, !.ma240 = m240,
                     !.industry_up_ratio_5d = up] :
        roe \in {101, 300}, opm \in {50, 300}, m1 \in {50, 300}, eps \in {0, 300},
        v \in {500000, 2500000, 4000000}, m60 \in {45, 95}, m240 \in {40, 51, 95},
        up \in {None, 500} }

\* E-candidate: its four inputs at their boundaries and absent, across tiers
\* and across a Universe failure (debt ratio 0.65).
ECandidateFamily ==
    { [b EXCEPT !.rs60 = rs, !.inst_net_buy_20 = inb, !.industry_rank_by_size = rk,
                !.last_quarter_growth = lq, !.debt_ratio = dr,
                !.volume = v, !.ma240 = m240, !.eps_growth_4q = eps] :
        b \in Bases, rs \in {74, 75, 100}, inb \in {None, -1, 0}, rk \in {None, 3, 4},
        lq \in {None, 99, 100}, dr \in {300, 650},
        v \in {500000, 4000000}, m240 \in {40, 95}, eps \in {104, 300} }

\* price_cap values a caller passes: the default and a raised cap.
PriceCaps == {PRICE_CAP_DEFAULT, 100}

\* ticker.history(period="2y"): empty, too short, and long enough.
Histories ==
    { [rows |-> r, close |-> 52, volume |-> 4000000, ma20 |-> 50, ma60 |-> 45,
       ma240 |-> 40, turnover_20 |-> 100000000, avg_vol20 |-> 1000000] :
        r \in {0, 239, 240} }

\* ticker.info: every key the conversion reads, present or missing.
Infos ==
    { [ sharesOutstanding |-> so, marketCap |-> mc, returnOnEquity |-> roe,
        operatingMargins |-> opm, totalDebt |-> td, totalAssets |-> ta,
        totalStockholderEquity |-> te, debtToEquity |-> de, revenueGrowth |-> rg,
        earningsGrowth |-> eg, earningsQuarterlyGrowth |-> None,
        is_financial_industry |-> fin ] :
        so \in {None, 100000000}, mc \in {None, 2000000000}, roe \in {None, 150},
        opm \in {None, 80}, td \in {None, 300, 700}, ta \in {None, 1000},
        te \in {None, 700}, de \in {None, 50, 300}, rg \in {None, 60},
        eg \in {None, 100}, fin \in BOOLEAN }

(***************************************************************************)
(* State machine                                                           *)
(***************************************************************************)
VARIABLES
    caller,     \* "direct": the engine's functions called on a given snapshot;
                \* "scan": the scan loop of the Streamlit page
    pc,         \* position in the pipeline
    i,          \* index of the scan loop
    hist, info, \* what the scan loop fetched for scan_targets[i]
    s,          \* the StockSnapshot
    price_cap,
    universe, firm, score, cls

vars == <<caller, pc, i, hist, info, s, price_cap, universe, firm, score, cls>>

InitDirect ==
    /\ caller = "direct"
    /\ pc = "snapshot"
    /\ i = 0
    /\ hist = Nil /\ info = Nil
    /\ \/ s \in FirmFamily /\ price_cap \in PriceCaps
       \/ /\ \/ s \in UniverseNFFamily
             \/ s \in UniverseFinFamily
             \/ s \in ScoreNFFamily
             \/ s \in GrowthNFFamily
             \/ s \in ScoreFinFamily
             \/ s \in TierFinFamily
             \/ s \in TierNFFamily
             \/ s \in ECandidateFamily
          /\ price_cap = PRICE_CAP_DEFAULT
    /\ universe = Nil /\ firm = Nil /\ score = Nil /\ cls = Nil

\* The button handler after get_market_scan_list: max_price is the sidebar's value.
InitScan ==
    /\ caller = "scan"
    /\ pc = "next"
    /\ i = 0
    /\ hist = Nil /\ info = Nil /\ s = Nil
    /\ price_cap = PRICE_CAP_DEFAULT
    /\ universe = Nil /\ firm = Nil /\ score = Nil /\ cls = Nil

Init == InitDirect \/ InitScan

\* `continue`: on to the next target, the locals of this iteration dropped.
Continue ==
    /\ pc' = "next"
    /\ i' = i + 1
    /\ hist' = Nil /\ info' = Nil /\ s' = Nil
    /\ universe' = Nil /\ firm' = Nil /\ score' = Nil /\ cls' = Nil
    /\ UNCHANGED <<caller, price_cap>>

\* for i, meta in enumerate(scan_targets): fetch the history and the info dict.
ScanFetch ==
    /\ caller = "scan" /\ pc = "next" /\ i < MaxTargets
    /\ \E h \in Histories, inf \in Infos :
          IF h.rows = 0
          THEN Continue
          ELSE /\ pc' = "fetched"
               /\ hist' = h /\ info' = inf
               /\ UNCHANGED <<caller, i, s, price_cap, universe, firm, score, cls>>

BuildSnapshot ==
    /\ caller = "scan" /\ pc = "fetched"
    /\ LET snapshot == build_snapshot_from_yfinance(Symbol, info, hist)
       IN  IF snapshot = Nil
           THEN Continue
           ELSE /\ s' = snapshot
                /\ pc' = "snapshot"
                /\ UNCHANGED <<caller, i, hist, info, price_cap, universe, firm, score, cls>>

CheckUniverse ==
    /\ pc = "snapshot"
    /\ universe' = check_universe(s, price_cap)
    /\ pc' = "universe"
    /\ UNCHANGED <<caller, i, hist, info, s, price_cap, firm, score, cls>>

CheckFirm ==
    /\ pc = "universe"
    /\ firm' = check_firm(s)
    /\ pc' = "firm"
    /\ UNCHANGED <<caller, i, hist, info, s, price_cap, universe, score, cls>>

CalculateScore ==
    /\ pc = "firm"
    /\ score' = calculate_score(s, firm)
    /\ pc' = "score"
    /\ UNCHANGED <<caller, i, hist, info, s, price_cap, universe, firm, cls>>

ClassifyStock ==
    /\ caller = "direct" /\ pc = "score"
    /\ cls' = classify_stock(s, universe, firm, score)
    /\ pc' = "classified"
    /\ UNCHANGED <<caller, i, hist, info, s, price_cap, universe, firm, score>>

\* The scan loop calls classify_stock(snapshot, universe, firm): the required
\* parameter `score` is missing, so the call raises TypeError and no
\* ClassificationResult is produced.
ScanClassify ==
    /\ caller = "scan" /\ pc = "score"
    /\ pc' = "raised"
    /\ UNCHANGED <<caller, i, hist, info, s, price_cap, universe, firm, score, cls>>

Next ==
    \/ ScanFetch
    \/ BuildSnapshot
    \/ CheckUniverse
    \/ CheckFirm
    \/ CalculateScore
    \/ ClassifyStock
    \/ ScanClassify

Spec == Init /\ [][Next]_vars

(***************************************************************************)
(* Properties                                                              *)
(***************************************************************************)
HasUniverse == pc \in {"universe", "firm", "score", "classified", "raised"}
HasFirm     == pc \in {"firm", "score", "classified", "raised"}
HasScore    == pc \in {"score", "classified", "raised"}
Classified  == pc = "classified"

B2N(b) == IF b THEN 1 ELSE 0

\* The statements' own reading of "average of the present monthly revenue YoY
\* figures, 0 when none is present", compared with a threshold t (thousandths).
StatedPresentRevs == {x \in {<<1, s.revenue_yoy_m1>>, <<2, s.revenue_yoy_m2>>,
                             <<3, s.revenue_yoy_m3>>} : x[2] # None}
StatedRevTotal ==
      (IF s.revenue_yoy_m1 # None THEN s.revenue_yoy_m1 ELSE 0)
    + (IF s.revenue_yoy_m2 # None THEN s.revenue_yoy_m2 ELSE 0)
    + (IF s.revenue_yoy_m3 # None THEN s.revenue_yoy_m3 ELSE 0)
StatedAvgGE(t) ==
    IF StatedPresentRevs = {} THEN 0 >= t
    ELSE StatedRevTotal >= t * Cardinality(StatedPresentRevs)

StatedA == firm.is_firm /\ score.total >= 70
StatedB == firm.count = 3 \/ (60 <= score.total /\ score.total <= 69)
StatedC ==
    /\ firm.count >= 3 /\ firm.f_price
    /\ s.roe_ttm # None /\ s.roe_ttm > 100
    /\ s.opm_ttm # None /\ s.opm_ttm >= 30
    /\ (StatedAvgGE(0) \/ (s.revenue_yoy_m1 # None /\ s.revenue_yoy_m1 >= 50))
StatedTally ==
      B2N(s.roe_ttm # None /\ s.roe_ttm >= 80)
    + B2N(s.opm_ttm # None /\ s.opm_ttm >= 20)
    + B2N(StatedAvgGE(-30))

\* C1: whenever universe.passed is false, classify_stock returns layer
\* Eliminated, whatever the firm count, the is_firm flag and the score total.
C1_UniverseFailedIsEliminated ==
    (Classified /\ ~universe.passed) => cls.layer = ELIMINATED

\* A failed Universe filter on a snapshot that would otherwise be tier A.
C1_Witness ==
    /\ Classified /\ ~universe.passed
    /\ firm.is_firm /\ score.total >= 70
    /\ cls.layer = ELIMINATED

\* C2: a fundamental (ROE, operating margin, debt ratio) the data source does
\* not have makes the corresponding Universe check of the snapshot built by
\* build_snapshot_from_yfinance false.
C2_UnavailableFundamentalFailsCheck ==
    (caller = "scan" /\ HasUniverse /\ ~s.is_financial) =>
        /\ (info.returnOnEquity = None => ~universe.checks.roe)
        /\ (info.operatingMargins = None => ~universe.checks.opm)
        /\ (InfoDebtRatio(info) = None => ~universe.checks.debt_ratio)

\* C3: calculate_score returns a total in 0..100, negative and far-above-0.30
\* inputs included.
C3_TotalInRange ==
    HasScore => (score.total >= 0 /\ score.total <= 100)

\* A score computed from a negative ROE and a revenue growth far above 0.30.
C3_Witness ==
    /\ HasScore /\ ~s.is_financial
    /\ s.roe_ttm # None /\ s.roe_ttm < 0
    /\ s.revenue_yoy_m1 # None /\ s.revenue_yoy_m1 > 300
    /\ s.eps_growth_4q # None /\ s.eps_growth_4q < 0

\* C4: check_firm's count is the number of true conditions among f_price,
\* f_volume, f_trend and f_group, lies in 0..4, and is_firm holds exactly when
\* count = 4.
C4_FirmCountConsistent ==
    HasFirm =>
        /\ firm.count = B2N(firm.f_price) + B2N(firm.f_volume)
                          + B2N(firm.f_trend) + B2N(firm.f_group)
        /\ firm.count \in 0..4
        /\ (firm.is_firm <=> firm.count = 4)

\* Three of four conditions: not Firm.
C4_Witness ==
    HasFirm /\ firm.count = 3 /\ ~firm.is_firm /\ ~firm.f_volume

\* C5: for a snapshot that passed the Universe filter, is_e_candidate is true
\* exactly when rs60 >= 75 and inst_net_buy_20, industry_rank_by_size and
\* last_quarter_growth are all present with inst_net_buy_20 >= 0, rank <= 3 and
\* growth >= 0.10, whatever the tier; an absent field makes the flag false.
C5_ECandidateIff ==
    (Classified /\ universe.passed) =>
        (cls.is_e_candidate <=>
            /\ s.rs60 >= 75
            /\ s.inst_net_buy_20 # None /\ s.inst_net_buy_20 >= 0
            /\ s.industry_rank_by_size # None /\ s.industry_rank_by_size <= 3
            /\ s.last_quarter_growth # None /\ s.last_quarter_growth >= 100)

\* One field absent, the other three favourable: the flag is false.
C5_Witness ==
    /\ Classified /\ universe.passed
    /\ s.rs60 >= 75
    /\ s.inst_net_buy_20 = None
    /\ s.industry_rank_by_size # None /\ s.industry_rank_by_size <= 3
    /\ s.last_quarter_growth # None /\ s.last_quarter_growth >= 100
    /\ ~cls.is_e_candidate

\* C6: for a non-financial snapshot, checks holds one boolean for each of the
\* eight conditions and passed is their conjunction.
C6_NonFinancialUniverse ==
    (HasUniverse /\ ~s.is_financial) =>
        /\ DOMAIN universe.checks =
              {"price", "market_cap", "revenue_3m_yoy", "roe", "opm", "debt_ratio",
               "turnover_20", "turnover_ratio_20"}
        /\ universe.checks.price <=> s.close <= price_cap
        /\ universe.checks.market_cap <=> s.market_cap >= 1000000000
        /\ universe.checks.revenue_3m_yoy <=>
              \A x \in {s.revenue_yoy_m1, s.revenue_yoy_m2, s.revenue_yoy_m3} :
                  x # None /\ x >= 50
        /\ universe.checks.roe <=> (s.roe_ttm # None /\ s.roe_ttm > 100)
        /\ universe.checks.opm <=> (s.opm_ttm # None /\ s.opm_ttm >= 50)
        /\ universe.checks.debt_ratio <=> (s.debt_ratio # None /\ s.debt_ratio < 600)
        /\ universe.checks.turnover_20 <=>
              (s.avg_turnover_20 # None /\ s.avg_turnover_20 >= 50000000)
        /\ universe.checks.turnover_ratio_20 <=>
              (s.turnover_ratio_20 # None /\ s.turnover_ratio_20 >= 3)
        /\ universe.passed <=>
              /\ universe.checks.price /\ universe.checks.market_cap
              /\ universe.checks.revenue_3m_yoy /\ universe.checks.roe
              /\ universe.checks.opm /\ universe.checks.debt_ratio
              /\ universe.checks.turnover_20 /\ universe.checks.turnover_ratio_20

\* debt_ratio = 0.65 alone fails the filter.
C6_Witness ==
    /\ HasUniverse /\ ~s.is_financial
    /\ s.debt_ratio = 650
    /\ ~universe.checks.debt_ratio /\ ~universe.passed
    /\ \A k \in DOMAIN universe.checks \ {"debt_ratio"} : universe.checks[k]

\* C7: for a financial snapshot, an absent npl_ratio makes checks.npl and
\* passed false, and an absent coverage_ratio makes checks.coverage and passed
\* false: the placeholders of calculate_score do not reach the Universe filter.
C7_AbsentNplOrCoverageFails ==
    (HasUniverse /\ s.is_financial) =>
        /\ (s.npl_ratio = None => (~universe.checks.npl /\ ~universe.passed))
        /\ (s.coverage_ratio = None => (~universe.checks.coverage /\ ~universe.passed))

\* NPL absent, every other check true, and the score already computed with
\* the placeholder.
C7_Witness ==
    /\ HasScore /\ s.is_financial
    /\ s.npl_ratio = None
    /\ ~universe.checks.npl /\ ~universe.passed
    /\ \A k \in DOMAIN universe.checks \ {"npl"} : universe.checks[k]

\* C8: classify_stock returns tier A exactly when universe.passed, firm.is_firm
\* and score.total >= 70.
C8_TierAIff ==
    Classified =>
        (cls.layer = LayerA <=> (universe.passed /\ firm.is_firm /\ score.total >= 70))

C8_Witness ==
    Classified /\ cls.layer = LayerA /\ firm.count = 4 /\ score.total >= 70

\* C9: a Universe-passing snapshot that does not qualify for A is tier B
\* whenever firm.count = 3 or 60 <= score.total <= 69.
C9_TierB ==
    (Classified /\ universe.passed /\ ~StatedA /\ StatedB) => cls.layer = LayerB

\* firm.count = 3 with a total below the 60 band.
C9_Witness ==
    /\ Classified /\ universe.passed
    /\ firm.count = 3 /\ score.total < 60
    /\ cls.layer = LayerB

\* C10: a Universe-passing snapshot matching none of A, B and C is tier D
\* exactly when firm.count >= 2 and the bottom-line tally is >= 2, and is
\* Eliminated otherwise.
C10_TierDOrEliminated ==
    (Classified /\ universe.passed /\ ~StatedA /\ ~StatedB /\ ~StatedC) =>
        /\ cls.layer = LayerD <=> (firm.count >= 2 /\ StatedTally >= 2)
        /\ cls.layer # LayerD => cls.layer = ELIMINATED

\* firm.count < 2 with a tally of 2 or 3: Eliminated.
C10_Witness ==
    /\ Classified /\ universe.passed
    /\ firm.count < 2 /\ ~(60 <= score.total /\ score.total <= 69)
    /\ StatedTally >= 2
    /\ cls.layer = ELIMINATED

\* Values a monthly revenue YoY figure is raised to.
RevenueGrid == {-500, -200, 0, 100, 250, 400, 1000}

\* A present figure raised (or kept); an absent one stays absent.
RaisedRevenue(x) == IF x = None THEN {None} ELSE {y \in RevenueGrid : y >= x}

\* C11: for a non-financial snapshot, raising any of revenue_yoy_m1, m2, m3,
\* every other field and the set of present figures unchanged, never lowers
\* the growth sub-score of calculate_score.
C11_GrowthMonotone ==
    (pc = "score" /\ ~s.is_financial) =>
        \A m1 \in RaisedRevenue(s.revenue_yoy_m1),
           m2 \in RaisedRevenue(s.revenue_yoy_m2),
           m3 \in RaisedRevenue(s.revenue_yoy_m3) :
            calculate_score([s EXCEPT !.revenue_yoy_m1 = m1, !.revenue_yoy_m2 = m2,
                                      !.revenue_yoy_m3 = m3], firm).growth
                >= score.growth

\* A negative figure with one absent: raising it raises the sub-score.
C11_Witness ==
    /\ pc = "score" /\ ~s.is_financial
    /\ s.revenue_yoy_m1 # None /\ s.revenue_yoy_m1 < 0
    /\ s.revenue_yoy_m2 = None
    /\ calculate_score([s EXCEPT !.revenue_yoy_m1 = 250], firm).growth > score.growth

\* C13: f_group is true if the advance ratio is present and >= 0.6 or the
\* industry index price and its 60-day average are both present with price >
\* average; it is true by default when neither signal is available, and false
\* when a signal is available and no available signal meets its threshold.
StatedRatioAvailable == s.industry_up_ratio_5d # None
StatedIndexAvailable == s.industry_index_price # None /\ s.industry_index_ma60 # None
StatedRatioMet == StatedRatioAvailable /\ s.industry_up_ratio_5d >= 600
StatedIndexMet == StatedIndexAvailable /\ s.industry_index_price > s.industry_index_ma60

C13_GroupCondition ==
    HasFirm =>
        /\ (StatedRatioMet \/ StatedIndexMet) => firm.f_group
        /\ (~StatedRatioAvailable /\ ~StatedIndexAvailable) => firm.f_group
        /\ ((StatedRatioAvailable \/ StatedIndexAvailable)
              /\ ~StatedRatioMet /\ ~StatedIndexMet) => ~firm.f_group

\* No advance ratio and an index price without its average: true by default.
C13_Witness ==
    /\ HasFirm
    /\ s.industry_up_ratio_5d = None
    /\ s.industry_index_price # None /\ s.industry_index_ma60 = None
    /\ firm.f_group

\* C14: in the scan loop, a security whose snapshot went through Universe,
\* Firm and Score is then classified: classify_stock is applied to the
\* snapshot and the three results and yields one classification.
C14_ScanClassifies ==
    (caller = "scan" /\ s # Nil /\ pc \notin {"snapshot", "universe", "firm", "score"}) =>
        /\ pc = "classified"
        /\ cls = classify_stock(s, universe, firm, score)
        /\ cls.layer \in Layers

\* C15: tier C implies firm.is_firm (count = 4) and score.total < 60; tier C
\* or D implies firm.count # 3 and score.total outside 60..69.
C15_TierCDShape ==
    Classified =>
        /\ cls.layer = LayerC =>
              (firm.is_firm /\ firm.count = 4 /\ score.total < 60)
        /\ cls.layer \in {LayerC, LayerD} =>
              (firm.count # 3 /\ ~(60 <= score.total /\ score.total <= 69))

\* Tier C: a four-of-four Firm below 60 points.
C15_Witness ==
    /\ Classified /\ cls.layer = LayerC
    /\ firm.count = 4 /\ score.total < 60

====
